---- MODULE Spec2Model ----
(***************************************************************************)
(* Model of the request validators of vspd's webapi package                *)
(* (webapi/helpers.go): validConsensusVoteChoices, validTreasuryPolicy,    *)
(* validTSpendPolicy, validPolicyOption, validateSignature and             *)
(* canTicketVote.                                                          *)
(*                                                                         *)
(* One validator call is in progress at a time.  A call is started from    *)
(* "idle" with inputs drawn from bounded sets, runs through the steps of   *)
(* the Go function (one step per iteration of a range-over-map loop, one   *)
(* step per collaborator call) and ends in "done" with its return value in *)
(* ret.  The order in which a Go map is ranged over is a nondeterministic  *)
(* choice of the next key.  The calls made to the collaborators (message   *)
(* verification, the database, the dcrd node) are recorded in log.         *)
(***************************************************************************)
EXTENDS Integers, Sequences, FiniteSets, TLC

VARIABLES
    pc,     \* position of the running call: "idle", a step label, or "done"
    call,   \* the running call: its function name and arguments
    todo,   \* keys of the ranged-over map not yet visited
    ret,    \* return values of the call once pc = "done"
    log     \* collaborator calls made by the running call, in order

vars == <<pc, call, todo, ret, log>>

\* Largest number of entries of a submitted map (vote choices, policies).
MaxEntries == 2

-----------------------------------------------------------------------------
(* Go error values.  nil is NoError.  fmt.Errorf keeps its format string,  *)
(* its arguments (a record) and, for %w, the error it wraps.                *)

NoArgs == [n |-> 0]

NoError == [kind |-> "nil", format |-> "", args |-> NoArgs, wrapped |-> <<>>]

Errorf(format, args) ==
    [kind |-> "error", format |-> format, args |-> args, wrapped |-> <<>>]

ErrorfW(format, args, err) ==
    [kind |-> "error", format |-> format, args |-> args, wrapped |-> <<err>>]

\* An error returned by a collaborator (database, dcrd RPC).
CollabError(name) == Errorf(name, NoArgs)

-----------------------------------------------------------------------------
(* Strings that are decoded are sequences of one-character strings.        *)

Rep(c, n) == [i \in 1 .. n |-> c]

HexLower == <<"0", "1", "2", "3", "4", "5", "6", "7", "8", "9",
              "a", "b", "c", "d", "e", "f">>

HexUpper == <<"0", "1", "2", "3", "4", "5", "6", "7", "8", "9",
              "A", "B", "C", "D", "E", "F">>

IsHexChar(c) == \E i \in 1 .. 16 : HexLower[i] = c \/ HexUpper[i] = c

\* The value of a hexadecimal digit, upper or lower case.
FromHexChar(c) ==
    (CHOOSE i \in 1 .. 16 : HexLower[i] = c \/ HexUpper[i] = c) - 1

\* encoding/hex DecodeString: the bytes of the leading well-formed pairs and
\* InvalidByteError at the first character that is no hexadecimal digit,
\* ErrLength for an odd length, nil otherwise.
HexDecodeString(s) ==
    LET bad   == {i \in 1 .. Len(s) : ~IsHexChar(s[i])}
        first == CHOOSE i \in bad : \A j \in bad : i <= j
        pairs == IF bad # {} THEN (first - 1) \div 2 ELSE Len(s) \div 2
        bytes == [k \in 1 .. pairs |->
                    16 * FromHexChar(s[2 * k - 1]) + FromHexChar(s[2 * k])]
    IN  IF bad # {}
        THEN [bytes |-> bytes,
              err |-> Errorf("encoding/hex: invalid byte: %#U", [byte |-> s[first]])]
        ELSE IF Len(s) % 2 = 1
             THEN [bytes |-> bytes,
                   err |-> Errorf("encoding/hex: odd length hex string", NoArgs)]
             ELSE [bytes |-> bytes, err |-> NoError]

PubKeyBytesLenCompressed == 33

MaxHashStringSize == 64

HashSize == 32

\* chainhash.NewHashFromStr: at most MaxHashStringSize characters, an odd
\* length padded with a leading zero, hex-decoded into the tail of the hash
\* and byte-reversed.
NewHashFromStr(hash) ==
    LET src == IF Len(hash) % 2 = 0 THEN hash ELSE <<"0">> \o hash
        dec == HexDecodeString(src)
        pad == HashSize - Len(dec.bytes)
        rev == [i \in 1 .. HashSize |->
                  IF HashSize + 1 - i > pad
                  THEN dec.bytes[HashSize + 1 - i - pad] ELSE 0]
    IN  IF Len(hash) > MaxHashStringSize
        THEN [hash |-> Rep(0, HashSize),
              err |-> Errorf("max hash string length is %v bytes",
                             [max |-> MaxHashStringSize])]
        ELSE IF dec.err # NoError
             THEN [hash |-> Rep(0, HashSize), err |-> dec.err]
             ELSE [hash |-> rev, err |-> NoError]

\* The submitted maps with at most MaxEntries entries.
MapsOver(keys, values) ==
    UNION {[d -> values] : d \in {S \in SUBSET keys : Cardinality(S) <= MaxEntries}}

\* The for-range loop goes on with the keys not yet visited; mutated, it
\* stops after the first entry that passes.
ContinueLoopReturnsEarly(rest, key) == {}

ContinueLoop(rest, key) == rest \ {key}

-----------------------------------------------------------------------------
(* validConsensusVoteChoices                                               *)

Choice(id) == [Id |-> id]

Agenda(id, choices) == [Vote |-> [Id |-> id, Choices |-> choices]]

YesNo == <<Choice("abstain"), Choice("no"), Choice("yes")>>

\* chaincfg.Params: Deployments maps a vote version to its agendas.  The
\* first two are shaped like the networks' own tables; the third lists one
\* agenda id twice within a version.
ParamsSet ==
    {[Deployments |->
        (9 :> <<Agenda("reverttreasurypolicy", YesNo),
                Agenda("explicitverupgrades", YesNo)>>
         @@ 10 :> <<Agenda("blake3pow", YesNo)>>)],
     [Deployments |->
        (10 :> <<Agenda("blake3pow", YesNo),
                 Agenda("changesubsidysplit",
                        <<Choice("abstain"), Choice("keep")>>)>>)],
     [Deployments |->
        (10 :> <<Agenda("blake3pow", <<Choice("abstain"), Choice("yes")>>),
                 Agenda("blake3pow", <<Choice("abstain"), Choice("keep")>>)>>)]}

VoteVersions == {9, 10, 11}

AgendaIds == {"reverttreasurypolicy", "blake3pow", "changesubsidysplit", "nosuchagenda"}

ChoiceIds == {"abstain", "yes", "keep", "bogus"}

\* Line 39: params.Deployments[voteVersion]; a version that is no key of
\* the map yields the empty list.
DeploymentsAt(params, voteVersion) ==
    IF voteVersion \in DOMAIN params.Deployments
    THEN params.Deployments[voteVersion]
    ELSE <<>>

\* Lines 42-47: is the choice among the agenda's choices, from index j on.
RECURSIVE ChoiceLoop(_, _, _)
ChoiceLoop(choices, j, choice) ==
    IF j > Len(choices)
    THEN FALSE
    ELSE IF choices[j].Id = choice
         THEN TRUE
         ELSE ChoiceLoop(choices, j + 1, choice)

\* Lines 39-52: the agendas from index i on; the first agenda with the
\* submitted id decides.
RECURSIVE AgendaLoop(_, _, _, _, _)
AgendaLoop(deployments, i, voteVersion, agenda, choice) ==
    IF i > Len(deployments)
    THEN Errorf("agenda %q not found for vote version %d",
                [agenda |-> agenda, voteVersion |-> voteVersion])
    ELSE IF deployments[i].Vote.Id = agenda
         THEN IF ChoiceLoop(deployments[i].Vote.Choices, 1, choice)
              THEN NoError
              ELSE Errorf("choice %q not found for agenda %q",
                          [choice |-> choice, agenda |-> agenda])
         ELSE AgendaLoop(deployments, i + 1, voteVersion, agenda, choice)

\* Lines 39-52, mutated: a known agenda is accepted with any choice.
ConsensusEntryErrorAnyChoice(params, voteVersion, agenda, choice) ==
    IF \E i \in 1 .. Len(DeploymentsAt(params, voteVersion)) :
          DeploymentsAt(params, voteVersion)[i].Vote.Id = agenda
    THEN NoError
    ELSE Errorf("agenda %q not found for vote version %d",
                [agenda |-> agenda, voteVersion |-> voteVersion])

\* Lines 39-52: the body of agendaLoop for one submitted pair.
ConsensusEntryError(params, voteVersion, agenda, choice) ==
    AgendaLoop(DeploymentsAt(params, voteVersion), 1, voteVersion, agenda, choice)

\* Line 34: the call.
Call_validConsensusVoteChoices ==
    /\ pc = "idle"
    /\ \E params \in ParamsSet, voteVersion \in VoteVersions,
          voteChoices \in MapsOver(AgendaIds, ChoiceIds) :
          /\ call' = [fn |-> "validConsensusVoteChoices", params |-> params,
                      voteVersion |-> voteVersion, voteChoices |-> voteChoices]
          /\ todo' = DOMAIN voteChoices
    /\ pc' = "validConsensusVoteChoices"
    /\ ret' = [err |-> NoError]
    /\ log' = <<>>

\* Lines 37-53: one iteration of agendaLoop, on an agenda not visited before.
validConsensusVoteChoices_Range ==
    /\ pc = "validConsensusVoteChoices"
    /\ \E agenda \in todo :
          LET err == ConsensusEntryError(call.params, call.voteVersion,
                                         agenda, call.voteChoices[agenda]) IN
          IF err # NoError
          THEN /\ ret' = [err |-> err]
               /\ pc' = "done"
               /\ todo' = todo
          ELSE /\ todo' = ContinueLoop(todo, agenda)
               /\ UNCHANGED <<pc, ret>>
    /\ UNCHANGED <<call, log>>

\* Line 55: every submitted pair was visited.
validConsensusVoteChoices_Return ==
    /\ pc = "validConsensusVoteChoices"
    /\ todo = {}
    /\ ret' = [err |-> NoError]
    /\ pc' = "done"
    /\ UNCHANGED <<call, todo, log>>

-----------------------------------------------------------------------------
(* validPolicyOption, validTreasuryPolicy, validTSpendPolicy               *)

PolicyOptions == {"yes", "no", "abstain", "invalid", ""}

\* Policy values tried: the accepted ones, another casing, another word.
PolicyValues == PolicyOptions \cup {"Yes", "maybe"}

\* Lines 100-107.
validPolicyOption(policy) ==
    IF policy \in PolicyOptions
    THEN NoError
    ELSE Errorf("%q is not a valid policy option", [policy |-> policy])

\* Treasury keys tried: 33 bytes in lower and upper case, 32 and 34 bytes,
\* an odd number of digits, characters that are no digits, the empty string.
TreasuryKeys ==
    {<<"0", "3">> \o Rep("a", 64), <<"0", "2">> \o Rep("F", 64),
     Rep("b", 64), Rep("c", 68), Rep("d", 65),
     <<"0", "3">> \o Rep("g", 64), Rep("e", 65) \o <<"x">>, <<>>}

\* Lines 60-71, mutated: the length of the decoded key is not checked.
TreasuryEntryErrorNoLength(key, choice) ==
    LET pikey == HexDecodeString(key) IN
    IF pikey.err # NoError
    THEN ErrorfW("error decoding treasury key %q: %w", [key |-> key], pikey.err)
    ELSE validPolicyOption(choice)

\* Lines 60-71: the body of the loop of validTreasuryPolicy.
TreasuryEntryError(key, choice) ==
    LET pikey == HexDecodeString(key) IN
    IF pikey.err # NoError
    THEN ErrorfW("error decoding treasury key %q: %w", [key |-> key], pikey.err)
    ELSE IF Len(pikey.bytes) # PubKeyBytesLenCompressed
         THEN Errorf("treasury key %q is not 33 bytes", [key |-> key])
         ELSE validPolicyOption(choice)

\* Line 58: the call.
Call_validTreasuryPolicy ==
    /\ pc = "idle"
    /\ \E policy \in MapsOver(TreasuryKeys, PolicyValues) :
          /\ call' = [fn |-> "validTreasuryPolicy", policy |-> policy]
          /\ todo' = DOMAIN policy
    /\ pc' = "validTreasuryPolicy"
    /\ ret' = [err |-> NoError]
    /\ log' = <<>>

\* Lines 59-72: one iteration, on a key not visited before.
validTreasuryPolicy_Range ==
    /\ pc = "validTreasuryPolicy"
    /\ \E key \in todo :
          LET err == TreasuryEntryError(key, call.policy[key]) IN
          IF err # NoError
          THEN /\ ret' = [err |-> err]
               /\ pc' = "done"
               /\ todo' = todo
          ELSE /\ todo' = ContinueLoop(todo, key)
               /\ UNCHANGED <<pc, ret>>
    /\ UNCHANGED <<call, log>>

\* Line 74: every key was visited.
validTreasuryPolicy_Return ==
    /\ pc = "validTreasuryPolicy"
    /\ todo = {}
    /\ ret' = [err |-> NoError]
    /\ pc' = "done"
    /\ UNCHANGED <<call, todo, log>>

\* Treasury spend hashes tried: 64 digits, 64 characters one of which is no
\* digit, 63, 65 and 66 digits, the empty string.
TSpendHashes ==
    {Rep("0", 62) \o <<"a", "B">>, Rep("7", 63) \o <<"z">>, <<"q">> \o Rep("1", 63),
     Rep("2", 63), Rep("3", 65), Rep("4", 66), <<>>}

\* Lines 79-92: the body of the loop of validTSpendPolicy.
TSpendEntryError(hash, choice) ==
    IF Len(hash) # MaxHashStringSize
    THEN Errorf("wrong tspend hash length, expected %d got %d",
                [expected |-> MaxHashStringSize, got |-> Len(hash)])
    ELSE LET h == NewHashFromStr(hash) IN
         IF h.err # NoError
         THEN ErrorfW("error decoding tspend hash %q: %w", [hash |-> hash], h.err)
         ELSE validPolicyOption(choice)

\* Line 77: the call.
Call_validTSpendPolicy ==
    /\ pc = "idle"
    /\ \E policy \in MapsOver(TSpendHashes, PolicyValues) :
          /\ call' = [fn |-> "validTSpendPolicy", policy |-> policy]
          /\ todo' = DOMAIN policy
    /\ pc' = "validTSpendPolicy"
    /\ ret' = [err |-> NoError]
    /\ log' = <<>>

\* Lines 78-93: one iteration, on a hash not visited before.
validTSpendPolicy_Range ==
    /\ pc = "validTSpendPolicy"
    /\ \E hash \in todo :
          LET err == TSpendEntryError(hash, call.policy[hash]) IN
          IF err # NoError
          THEN /\ ret' = [err |-> err]
               /\ pc' = "done"
               /\ todo' = todo
          ELSE /\ todo' = ContinueLoop(todo, hash)
               /\ UNCHANGED <<pc, ret>>
    /\ UNCHANGED <<call, log>>

\* Line 95: every hash was visited.
validTSpendPolicy_Return ==
    /\ pc = "validTSpendPolicy"
    /\ todo = {}
    /\ ret' = [err |-> NoError]
    /\ pc' = "done"
    /\ UNCHANGED <<call, todo, log>>

-----------------------------------------------------------------------------
(* validateSignature                                                       *)

Addrs  == {"DsCommit", "DsAlt", "DsOther"}
Msgs   == {"msg1", "msg2"}
Hashes == {"ticketA", "ticketB"}

\* A signature is described by the address and message it recovers to;
\* by = "none" is a signature that recovers to no address at all.
Sigs == [by : Addrs \cup {"none"}, msg : Msgs]

\* dcrutil.VerifyMessage: nil iff the signature was made by the address over
\* the message.
VerifyMessage(address, signature, message) ==
    IF signature.by = address /\ signature.msg = message
    THEN NoError
    ELSE Errorf("message not signed by address", NoArgs)

\* A Go pointer: nil, or a pointer to a value.
Nil == <<>>

Ptr(v) == <<v>>

Deref(p) == p[1]

\* Possible results of db.AltSignAddrData(hash): (record or nil, error).
DbReplies ==
    {[data |-> Nil, err |-> CollabError("bolt: database not open")]}
    \cup {[data |-> Nil, err |-> NoError]}
    \cup {[data |-> Ptr([AltSignAddr |-> a]), err |-> NoError] : a \in Addrs}

\* Line 113: the alternate sign address is consulted only when the first
\* verification failed.
NeedsAltLookupAlways(firstErr) == TRUE

NeedsAltLookup(firstErr) == firstErr # NoError

\* Lines 117-119, mutated: a failed lookup reported as a bad signature.
LookupFailedAsBadSig(err) == Errorf("bad signature", NoArgs)

LookupFailed(err) == ErrorfW("db.AltSignAddrData failed: %w", NoArgs, err)

\* Lines 123-126, mutated: a missing record reported differently.
AltCheckDisclosing(altSigData, signature, message) ==
    IF altSigData = Nil
    THEN Errorf("no alternate sign address", NoArgs)
    ELSE IF VerifyMessage(Deref(altSigData).AltSignAddr, signature, message) # NoError
         THEN Errorf("bad signature", NoArgs)
         ELSE NoError

\* Lines 123-129: no alternate sign address, or validating with it fails.
AltCheck(altSigData, signature, message) ==
    IF altSigData = Nil
       \/ VerifyMessage(Deref(altSigData).AltSignAddr, signature, message) # NoError
    THEN Errorf("bad signature", NoArgs)
    ELSE NoError

VerifyEvent(address, err) ==
    [ev |-> "VerifyMessage", address |-> address, ok |-> (err = NoError)]

LookupEvent(hash, reply) ==
    [ev |-> "AltSignAddrData", hash |-> hash, reply |-> reply]

\* Lines 109-113: the call and its first verification.
Call_validateSignature ==
    /\ pc = "idle"
    /\ \E hash \in Hashes, commitmentAddress \in Addrs,
          signature \in Sigs, message \in Msgs :
          LET firstErr == VerifyMessage(commitmentAddress, signature, message) IN
          /\ call' = [fn |-> "validateSignature", hash |-> hash,
                      commitmentAddress |-> commitmentAddress,
                      signature |-> signature, message |-> message]
          /\ log' = <<VerifyEvent(commitmentAddress, firstErr)>>
          /\ pc' = IF NeedsAltLookup(firstErr) THEN "AltSignAddrData" ELSE "done"
          /\ ret' = [err |-> NoError]
    /\ UNCHANGED todo

\* Lines 116-129: the database answers, then the alternate verification.
validateSignature_AltSignAddrData ==
    /\ pc = "AltSignAddrData"
    /\ \E reply \in DbReplies :
          /\ IF reply.err # NoError
             THEN /\ ret' = [err |-> LookupFailed(reply.err)]
                  /\ log' = Append(log, LookupEvent(call.hash, reply))
             ELSE /\ ret' = [err |-> AltCheck(reply.data, call.signature, call.message)]
                  /\ log' = IF reply.data = Nil
                            THEN Append(log, LookupEvent(call.hash, reply))
                            ELSE Append(Append(log, LookupEvent(call.hash, reply)),
                                        VerifyEvent(Deref(reply.data).AltSignAddr,
                                            VerifyMessage(Deref(reply.data).AltSignAddr,
                                                call.signature, call.message)))
    /\ pc' = "done"
    /\ UNCHANGED <<call, todo>>

-----------------------------------------------------------------------------
(* Fixed-width integers.  A value is kept as 16-bit limbs, least            *)
(* significant first: uint32 as <<l0, l1>>, int64 as <<l0, l1, l2, l3>> in  *)
(* two's complement, so that l3 is signed and the other limbs are not.      *)

Base == 2^16

Limbs  == 0 .. (Base - 1)

\* uint32(x) of a uint16 x.
Uint32FromUint16(x) == <<x, 0>>

\* a + b on uint32: the carry out of the high limb is dropped.
Uint32Add(a, b) ==
    LET s0 == a[1] + b[1]
        s1 == a[2] + b[2] + (s0 \div Base)
    IN  <<s0 % Base, s1 % Base>>

\* int64(x) of a uint32 x and of a uint16 x: zero extension.
Int64FromUint32(x) == <<x[1], x[2], 0, 0>>

Int64FromUint16(x) == <<x, 0, 0, 0>>

\* The int64 of a small integer literal, -Base < n < Base.
Int64Const(n) ==
    IF n >= 0 THEN <<n, 0, 0, 0>> ELSE <<Base + n, Base - 1, Base - 1, -1>>

\* a + b on int64: two's complement, the top limb wraps.
Int64Add(a, b) ==
    LET s0 == a[1] + b[1]
        s1 == a[2] + b[2] + (s0 \div Base)
        s2 == a[3] + b[3] + (s1 \div Base)
        s3 == a[4] + b[4] + (s2 \div Base)
    IN  <<s0 % Base, s1 % Base, s2 % Base,
          ((s3 + (Base \div 2)) % Base) - (Base \div 2)>>

\* a < b on int64.
Int64Lt(a, b) ==
    \/ a[4] < b[4]
    \/ a[4] = b[4] /\ a[3] < b[3]
    \/ a[4] = b[4] /\ a[3] = b[3] /\ a[2] < b[2]
    \/ a[4] = b[4] /\ a[3] = b[3] /\ a[2] = b[2] /\ a[1] < b[1]

Int64Gt(a, b) == Int64Lt(b, a)

Int64Le(a, b) == ~Int64Lt(b, a)

MinInt64 == <<0, 0, 0, -(Base \div 2)>>

MaxInt64 == <<Base - 1, Base - 1, Base - 1, (Base \div 2) - 1>>

-----------------------------------------------------------------------------
(* canTicketVote                                                           *)

\* chaincfg.Params: TicketMaturity is a uint16, TicketExpiry a uint32.
\* (256, 40960), (16, 6144) and (16, 384) are the values of the main, test
\* and simulation networks; the others lie at the edges of the types.
Maturities == {0, 1, 16, 256, Base - 1}

Expiries ==
    {<<0, 0>>, <<1, 0>>, <<384, 0>>, <<6144, 0>>, <<40960, 0>>, <<0, 1>>,
     <<Base - 256, Base - 1>>, <<Base - 3, Base - 1>>, <<Base - 1, Base - 1>>}

NetParams == [TicketMaturity : Maturities, TicketExpiry : Expiries]

\* Line 178: uint32(netParams.TicketMaturity)+netParams.TicketExpiry, then
\* int64(...)+1.
ExpiryThreshold(netParams) ==
    Int64Add(Int64FromUint32(Uint32Add(Uint32FromUint16(netParams.TicketMaturity),
                                       netParams.TicketExpiry)),
             Int64Const(1))

\* TicketMaturity + TicketExpiry + 1 as an integer, without any wrap-around
\* (the sum is below 2^33).
ExactThreshold(netParams) ==
    Int64Add(Int64Add(Int64FromUint16(netParams.TicketMaturity),
                      Int64FromUint32(netParams.TicketExpiry)),
             Int64Const(1))

\* Confirmation counts (int64) tried for given parameters: the ends of the
\* type and the values around zero, the maturity and both thresholds.
ConfirmationsFor(netParams) ==
    {MinInt64, MaxInt64}
    \cup {Int64Add(b, Int64Const(d)) :
            b \in {Int64Const(0), Int64FromUint16(netParams.TicketMaturity),
                   ExpiryThreshold(netParams), ExactThreshold(netParams)},
            d \in -2 .. 2}

\* Possible results of dcrdClient.ExistsLiveTicket(txid): (bool, error).
NodeReplies ==
    {[live |-> TRUE, err |-> NoError], [live |-> FALSE, err |-> NoError],
     [live |-> FALSE, err |-> CollabError("dcrd: connection closed")]}

\* Line 178, mutated: the threshold taken one too high.
TooOldOffByOne(rawTx, netParams) ==
    Int64Gt(rawTx.Confirmations,
            Int64Add(ExpiryThreshold(netParams), Int64Const(1)))

\* Line 178.
TooOld(rawTx, netParams) ==
    Int64Gt(rawTx.Confirmations, ExpiryThreshold(netParams))

\* Line 183.
Immature(rawTx, netParams) ==
    Int64Le(rawTx.Confirmations, Int64FromUint16(netParams.TicketMaturity))

\* Lines 189-191, mutated: the query error dropped.
QueryFailedSuppressed(err) == NoError

\* Lines 189-191.
QueryFailed(err) == ErrorfW("dcrd.ExistsLiveTicket error: %w", NoArgs, err)

QueryEvent(txid, reply) ==
    [ev |-> "ExistsLiveTicket", txid |-> txid, reply |-> reply]

\* Lines 174-185: the call and the two checks on the confirmation count.
Call_canTicketVote ==
    /\ pc = "idle"
    /\ \E netParams \in NetParams, txid \in Hashes :
       \E confirmations \in ConfirmationsFor(netParams) :
          LET rawTx == [Txid |-> txid, Confirmations |-> confirmations] IN
          /\ call' = [fn |-> "canTicketVote", rawTx |-> rawTx,
                      netParams |-> netParams]
          /\ IF TooOld(rawTx, netParams)
             THEN /\ ret' = [val |-> FALSE, err |-> NoError]
                  /\ pc' = "done"
             ELSE IF Immature(rawTx, netParams)
                  THEN /\ ret' = [val |-> TRUE, err |-> NoError]
                       /\ pc' = "done"
                  ELSE /\ ret' = [err |-> NoError]
                       /\ pc' = "ExistsLiveTicket"
    /\ log' = <<>>
    /\ UNCHANGED todo

\* Lines 188-193: the node answers.
canTicketVote_ExistsLiveTicket ==
    /\ pc = "ExistsLiveTicket"
    /\ \E reply \in NodeReplies :
          /\ log' = Append(log, QueryEvent(call.rawTx.Txid, reply))
          /\ ret' = IF reply.err # NoError
                    THEN [val |-> FALSE, err |-> QueryFailed(reply.err)]
                    ELSE [val |-> reply.live, err |-> NoError]
    /\ pc' = "done"
    /\ UNCHANGED <<call, todo>>

-----------------------------------------------------------------------------
\* The caller takes the result; the next call can start.
Return ==
    /\ pc = "done"
    /\ pc' = "idle"
    /\ call' = [fn |-> "none"]
    /\ todo' = {}
    /\ ret' = [err |-> NoError]
    /\ log' = <<>>

Init ==
    /\ pc = "idle"
    /\ call = [fn |-> "none"]
    /\ todo = {}
    /\ ret = [err |-> NoError]
    /\ log = <<>>

Next ==
    \/ Call_validConsensusVoteChoices
    \/ validConsensusVoteChoices_Range
    \/ validConsensusVoteChoices_Return
    \/ Call_validTreasuryPolicy
    \/ validTreasuryPolicy_Range
    \/ validTreasuryPolicy_Return
    \/ Call_validTSpendPolicy
    \/ validTSpendPolicy_Range
    \/ validTSpendPolicy_Return
    \/ Call_validateSignature
    \/ validateSignature_AltSignAddrData
    \/ Call_canTicketVote
    \/ canTicketVote_ExistsLiveTicket
    \/ Return

Spec == Init /\ [][Next]_vars

-----------------------------------------------------------------------------
(* What the checked properties speak about.                                *)

Done(fn) == pc = "done" /\ call.fn = fn

\* Positions in log of the alternate-address lookups and of the node queries.
Lookups == {i \in 1 .. Len(log) : log[i].ev = "AltSignAddrData"}

Queries == {i \in 1 .. Len(log) : log[i].ev = "ExistsLiveTicket"}

BadSignature == Errorf("bad signature", NoArgs)

\* The first verification of the running validateSignature call failed.
PrimaryFailed ==
    /\ Len(log) >= 1
    /\ log[1].ev = "VerifyMessage"
    /\ log[1].address = call.commitmentAddress
    /\ ~log[1].ok

\* The signature of the running call was made by that address over the
\* call's message.
SignedBy(address) ==
    call.signature.by = address /\ call.signature.msg = call.message

\* C1: when the first verification fails and db.AltSignAddrData returns an
\* error, validateSignature returns an error that carries the database error
\* and is neither nil nor the "bad signature" error.
C1_LookupErrorIsInfrastructureFailure ==
    Done("validateSignature") =>
        \A i \in Lookups :
            log[i].reply.err # NoError =>
                /\ ret.err # NoError
                /\ ret.err # BadSignature
                /\ ret.err.wrapped = <<log[i].reply.err>>

C1_Witness ==
    /\ Done("validateSignature")
    /\ PrimaryFailed
    /\ \E i \in Lookups : log[i].reply.err # NoError
    /\ ret.err.kind = "error"

\* C2: after a failed first verification, a lookup that finds no alternate
\* record and a lookup that finds a record whose address does not verify the
\* signature end in one and the same error value, "bad signature".
C2_AuthenticationFailureIsOpaque ==
    (Done("validateSignature") /\ PrimaryFailed) =>
        \A i \in Lookups :
            (/\ log[i].reply.err = NoError
             /\ \/ log[i].reply.data = Nil
                \/ ~SignedBy(Deref(log[i].reply.data).AltSignAddr))
            => ret.err = BadSignature

C2_Witness ==
    /\ Done("validateSignature")
    /\ PrimaryFailed
    /\ \E i \in Lookups :
          /\ log[i].reply.err = NoError
          /\ log[i].reply.data # Nil
          /\ ~SignedBy(Deref(log[i].reply.data).AltSignAddr)
    /\ ret.err = BadSignature

\* C3: validateSignature looks the alternate address up at most once and only
\* after the first verification failed; a signature that verifies against the
\* commitment address succeeds with no lookup, and one that verifies only
\* against the registered alternate address succeeds after exactly one lookup.
C3_LookupOnlyAfterPrimaryFails ==
    call.fn = "validateSignature" =>
        /\ Cardinality(Lookups) <= 1
        /\ \A i \in Lookups : i > 1 /\ PrimaryFailed
        /\ pc = "AltSignAddrData" => PrimaryFailed
        /\ (pc = "done" /\ SignedBy(call.commitmentAddress)) =>
               ret.err = NoError /\ Lookups = {}
        /\ (pc = "done" /\ PrimaryFailed) =>
               \A i \in Lookups :
                   (/\ log[i].reply.err = NoError
                    /\ log[i].reply.data # Nil
                    /\ SignedBy(Deref(log[i].reply.data).AltSignAddr))
                   => ret.err = NoError /\ Cardinality(Lookups) = 1

C3_Witness ==
    /\ Done("validateSignature")
    /\ PrimaryFailed
    /\ Cardinality(Lookups) = 1
    /\ \E i \in Lookups :
          /\ log[i].reply.data # Nil
          /\ SignedBy(Deref(log[i].reply.data).AltSignAddr)
    /\ ret.err = NoError

\* The confirmation count and parameters of the running canTicketVote call.
Confirmations == call.rawTx.Confirmations

Maturity == Int64FromUint16(call.netParams.TicketMaturity)

\* TicketMaturity + TicketExpiry of the running call does not fit a uint32.
SumWraps == ExpiryThreshold(call.netParams) # ExactThreshold(call.netParams)

\* C4: whenever the confirmations exceed maturity + expiry + 1 (the sum taken
\* as an integer), canTicketVote returns (false, nil) and asks the node
\* nothing, for any int64 count, uint16 maturity and uint32 expiry.
C4_TooOldIsIneligibleWithoutQuery ==
    (Done("canTicketVote")
        /\ Int64Gt(Confirmations, ExactThreshold(call.netParams)))
    => ret = [val |-> FALSE, err |-> NoError] /\ Queries = {}

C4_Witness ==
    /\ Done("canTicketVote")
    /\ Confirmations = Int64Add(ExactThreshold(call.netParams), Int64Const(1))
    /\ SumWraps
    /\ ret = [val |-> FALSE, err |-> NoError]
    /\ log = <<>>

\* C5 as stated: the error canTicketVote returns after a failed node query is
\* the node's error value itself.
C5_QueryErrorReturnedUnchanged ==
    Done("canTicketVote") =>
        \A i \in Queries :
            log[i].reply.err # NoError => ret.err = log[i].reply.err

\* C5, amended: after a failed node query canTicketVote returns false and a
\* new error, "dcrd.ExistsLiveTicket error: %w", that wraps the node's error;
\* the error is neither dropped nor turned into (false, nil).
C5_QueryErrorReturnedWrapped ==
    Done("canTicketVote") =>
        \A i \in Queries :
            log[i].reply.err # NoError =>
                /\ ret.val = FALSE
                /\ ret.err.kind = "error"
                /\ ret.err.format = "dcrd.ExistsLiveTicket error: %w"
                /\ ret.err.wrapped = <<log[i].reply.err>>

C5_Witness ==
    /\ Done("canTicketVote")
    /\ \E i \in Queries : log[i].reply.err # NoError
    /\ ret.err.kind = "error"

\* C6 as stated: for every count with maturity < confirmations <= maturity +
\* expiry + 1 canTicketVote queries the node exactly once, for the ticket's
\* id, and returns the node's answer with no error when the query succeeds.
C6_MiddleRangeQueriesOnce ==
    (Done("canTicketVote")
        /\ Int64Lt(Maturity, Confirmations)
        /\ Int64Le(Confirmations, ExactThreshold(call.netParams)))
    => /\ Cardinality(Queries) = 1
       /\ \A i \in Queries :
             /\ log[i].txid = call.rawTx.Txid
             /\ log[i].reply.err = NoError =>
                    ret = [val |-> log[i].reply.live, err |-> NoError]

\* C7 as stated: for every count at or below the maturity canTicketVote
\* returns (true, nil) and asks the node nothing.
C7_ImmatureIsEligibleWithoutQuery ==
    (Done("canTicketVote") /\ Int64Le(Confirmations, Maturity))
    => ret = [val |-> TRUE, err |-> NoError] /\ Queries = {}

\* Agenda ids are unique within each vote version of the parameters.
UniqueAgendaIds(params) ==
    \A v \in DOMAIN params.Deployments :
        \A i, j \in 1 .. Len(params.Deployments[v]) :
            params.Deployments[v][i].Vote.Id = params.Deployments[v][j].Vote.Id
                => i = j

\* The pair is in the tables of the vote version: some agenda of the version
\* has the id and lists the choice.
PairInTables(params, voteVersion, agenda, choice) ==
    /\ voteVersion \in DOMAIN params.Deployments
    /\ \E i \in 1 .. Len(params.Deployments[voteVersion]) :
          LET vote == params.Deployments[voteVersion][i].Vote IN
          /\ vote.Id = agenda
          /\ \E j \in 1 .. Len(vote.Choices) : vote.Choices[j].Id = choice

\* C8: with agenda ids unique within each version, validConsensusVoteChoices
\* returns nil exactly when every submitted pair is in the tables of the vote
\* version; the empty mapping is accepted, and a non-empty mapping is rejected
\* when the version has no deployments.
C8_VoteChoicesAcceptedIffInTables ==
    (Done("validConsensusVoteChoices") /\ UniqueAgendaIds(call.params)) =>
        /\ ret.err = NoError <=>
              \A agenda \in DOMAIN call.voteChoices :
                  PairInTables(call.params, call.voteVersion, agenda,
                               call.voteChoices[agenda])
        /\ DOMAIN call.voteChoices = {} => ret.err = NoError
        /\ (DOMAIN call.voteChoices # {}
               /\ call.voteVersion \notin DOMAIN call.params.Deployments)
           => ret.err # NoError

C8_Witness ==
    /\ Done("validConsensusVoteChoices")
    /\ UniqueAgendaIds(call.params)
    /\ Cardinality(DOMAIN call.voteChoices) = 2
    /\ \A agenda \in DOMAIN call.voteChoices :
          PairInTables(call.params, call.voteVersion, agenda,
                       call.voteChoices[agenda])
    /\ ret.err = NoError

\* The string is n hexadecimal digits.
IsHexOfLen(str, n) ==
    Len(str) = n /\ \A i \in 1 .. Len(str) : IsHexChar(str[i])

TreasuryEntryValid(key, choice) ==
    /\ IsHexOfLen(key, 2 * PubKeyBytesLenCompressed)
    /\ choice \in {"yes", "no", "abstain", "invalid", ""}

\* C9: validTreasuryPolicy returns nil exactly when every key is the hex
\* encoding of 33 bytes and every value is one of "yes", "no", "abstain",
\* "invalid", "" (compared case-sensitively).
C9_TreasuryPolicyAcceptedIffWellFormed ==
    Done("validTreasuryPolicy") =>
        (ret.err = NoError <=>
            \A key \in DOMAIN call.policy :
                TreasuryEntryValid(key, call.policy[key]))

C9_Witness ==
    /\ Done("validTreasuryPolicy")
    /\ Cardinality(DOMAIN call.policy) = 2
    /\ \E key \in DOMAIN call.policy : call.policy[key] = ""
    /\ ret.err = NoError

TSpendEntryValid(hash, choice) ==
    /\ IsHexOfLen(hash, MaxHashStringSize)
    /\ choice \in {"yes", "no", "abstain", "invalid", ""}

\* The agenda's pair is accepted by the first agenda of the version that has
\* its id (the only one, when ids are unique).
PairValid(params, voteVersion, agenda, choice) ==
    /\ voteVersion \in DOMAIN params.Deployments
    /\ LET deployments == params.Deployments[voteVersion]
           with == {i \in 1 .. Len(deployments) : deployments[i].Vote.Id = agenda}
       IN  /\ with # {}
           /\ LET first == CHOOSE i \in with : \A j \in with : i <= j
                  choices == deployments[first].Vote.Choices
              IN  \E j \in 1 .. Len(choices) : choices[j].Id = choice

\* The error names an entry of the submitted map that is not valid.
NamesInvalidVoteChoice(err) ==
    /\ err.args.agenda \in DOMAIN call.voteChoices
    /\ ~PairValid(call.params, call.voteVersion, err.args.agenda,
                  call.voteChoices[err.args.agenda])
    /\ "choice" \in DOMAIN err.args =>
           call.voteChoices[err.args.agenda] = err.args.choice

NamesInvalidPolicyEntry(err, len) ==
    /\ "key" \in DOMAIN err.args =>
           /\ err.args.key \in DOMAIN call.policy
           /\ ~IsHexOfLen(err.args.key, len)
    /\ "hash" \in DOMAIN err.args =>
           /\ err.args.hash \in DOMAIN call.policy
           /\ ~IsHexOfLen(err.args.hash, len)
    /\ "got" \in DOMAIN err.args =>
           /\ err.args.got # len
           /\ \E hash \in DOMAIN call.policy : Len(hash) = err.args.got
    /\ "policy" \in DOMAIN err.args =>
           /\ err.args.policy \notin {"yes", "no", "abstain", "invalid", ""}
           /\ \E key \in DOMAIN call.policy : call.policy[key] = err.args.policy

\* C10: whatever the order in which the map is ranged over, each of the three
\* validators returns nil exactly when the map has no invalid entry, and an
\* error it returns names an entry of the map that is invalid.
C10_VerdictIndependentOfMapOrder ==
    /\ Done("validConsensusVoteChoices") =>
          /\ ret.err = NoError <=>
                \A agenda \in DOMAIN call.voteChoices :
                    PairValid(call.params, call.voteVersion, agenda,
                              call.voteChoices[agenda])
          /\ ret.err # NoError => NamesInvalidVoteChoice(ret.err)
    /\ Done("validTreasuryPolicy") =>
          /\ ret.err = NoError <=>
                \A key \in DOMAIN call.policy :
                    TreasuryEntryValid(key, call.policy[key])
          /\ ret.err # NoError =>
                NamesInvalidPolicyEntry(ret.err, 2 * PubKeyBytesLenCompressed)
    /\ Done("validTSpendPolicy") =>
          /\ ret.err = NoError <=>
                \A hash \in DOMAIN call.policy :
                    TSpendEntryValid(hash, call.policy[hash])
          /\ ret.err # NoError =>
                NamesInvalidPolicyEntry(ret.err, MaxHashStringSize)

\* A valid entry was visited first and the invalid one after it.
C10_Witness ==
    /\ Done("validTSpendPolicy")
    /\ Cardinality(DOMAIN call.policy) = 2
    /\ Cardinality(todo) = 1
    /\ \E hash \in DOMAIN call.policy : TSpendEntryValid(hash, call.policy[hash])
    /\ ret.err # NoError

====
